---- MODULE Spec2Model ----
(***************************************************************************)
(* The invoicing app (App component in lib/supabaseClient.ts and the       *)
(* components it renders).                                                 *)
(*                                                                         *)
(*   Spec          session bootstrap: the mount effect that runs           *)
(*                 initializeApp and installs the onAuthStateChange        *)
(*                 listener, getOrCreateUserProfile, the render gating     *)
(*   SpecReports   ReportsDashboard and CustomerStatsDashboard on an       *)
(*                 invoice list, in a time zone                            *)
(*   SpecSettings  fetchUsers and the user management of SettingsModal     *)
(*   SpecInvoices  the invoice list, InvoiceView and InvoiceForm           *)
(*   SpecLogout    useLocalStorage, handleSaveSettings and handleLogout    *)
(*   SpecTemplates the Templates section of SettingsModal in one opening   *)
(*                                                                         *)
(* Every await of the code is a suspension point: the request is issued in *)
(* the step that reaches the await, and the step that consumes the         *)
(* response is a separate action, so other handlers interleave between.    *)
(* The effects that React runs after the render following a handler are    *)
(* part of the handler's step.                                             *)
(***************************************************************************)
EXTENDS Integers, Sequences, FiniteSets, TLC

\* ------------------------------------------------------------------ bounds
\* Number of auth-change notifications the provider emits in one run.
MaxNotifications == 2

\* Longest invoice list handed to the dashboards.
MaxReportInvoices == 3

\* Number of user-list queries of fetchUsers in flight at a time.
MaxPendingFetches == 1

\* Longest product list of a session.
MaxProducts == 2

\* Longest invoice list of a session, and the number of new-invoice forms
\* opened in it (each takes a fresh Date.now()).
MaxInvoices == 3
MaxNewForms == 2

\* Most line items on one invoice form.
MaxLineItems == 1

\* Most templates added in one opening of the settings modal.
MaxAddedTemplates == 2

\* ------------------------------------------------------------- value sets
NULL == "null"
Reject == "reject"
\* null of a profile value (currentUser, a read's data) and a missing table row
NullUser == [id |-> NULL, role |-> NULL]
NoRow == NullUser
\* no error in a probe result
NoError == [code |-> "none", dne |-> FALSE]
RejectedProbe == [code |-> Reject, dne |-> FALSE]
RejectedQuery == [data |-> NullUser, error |-> Reject]

\* Authentication subjects (session.user.id); a session is identified by it.
Subjects == {"u1", "u2"}
Sessions == Subjects \cup {NULL}
Roles == {"admin", "staff"}
ProfileRows == [id : Subjects, role : Roles]

\* The advisory text set when the startup resolution fails.
ProfileErrorMessage == "Your user profile could not be loaded or created. Please contact support."

VARIABLES
    \* React state of App
    session, currentUser, isAuthLoading, needsDbSetup, loginMessage,
    \* lifecycle of the component: "pending" (constructed, effect not yet
    \* run), "mounted" (effect ran, listener subscribed), "torn" (cleanup ran)
    mount,
    \* remote collaborator: profiles table and the provider's session
    schema, profiles, remoteSession,
    \* initializeApp: position and locals
    initPc, initSession, initHad, initProbe, initRead, initInsert,
    \* in-flight onAuthStateChange callbacks, each [sess, pc, had]
    cbs,
    \* bookkeeping of calls made
    notified, getSessionCalls, signOutCalls, insertCalls,
    \* history: completed getOrCreateUserProfile calls, rows the fallback
    \* inserted, a callback started before initializeApp finished, a setter
    \* invoked after teardown, and the state at the end of initializeApp
    calls, insertedRows, cbDuringInit, lateUpdate, endState

reactVars == <<session, currentUser, isAuthLoading, needsDbSetup, loginMessage>>
remoteVars == <<schema, profiles, remoteSession>>
initVars == <<initPc, initSession, initHad, initProbe, initRead, initInsert>>
countVars == <<notified, getSessionCalls, signOutCalls, insertCalls>>
histVars == <<calls, insertedRows, cbDuringInit, lateUpdate, endState>>
bootVars == <<reactVars, mount, remoteVars, initVars, cbs, countVars, histVars>>

VARIABLES
    \* the invoice list held by App (useLocalStorage 'invoices')
    invoices,
    \* the viewer's environment: timezone offset to UTC in hours (local =
    \* UTC + tz) and the instant of "new Date()" in hours since the epoch
    tz, now,
    \* what ReportsDashboard and CustomerStatsDashboard rendered last
    reportsDone, dailyReports, monthlyReports, statsDone, stats

reportVars == <<tz, now, reportsDone, dailyReports, monthlyReports, statsDone, stats>>

\* ------------------------------------------------------- pure definitions

\* Faulty variant: the login gate tests the session only.
ScreenOfNoUserCheck(loading, needsSetup, sess, user) ==
    IF loading THEN "Initializing"
    ELSE IF needsSetup THEN "NeedsSetup"
    ELSE IF sess = NULL THEN "LoggedOut"
    ELSE "LoggedIn"

\* Render gating of App: splash, setup screen, login page, or the app.
ScreenOf(loading, needsSetup, sess, user) ==
    IF loading THEN "Initializing"
    ELSE IF needsSetup THEN "NeedsSetup"
    ELSE IF sess = NULL \/ user = NullUser THEN "LoggedOut"
    ELSE "LoggedIn"

Screen == ScreenOf(isAuthLoading, needsDbSetup, session, currentUser)

\* Faulty variant: only the error code is tested, not the message.
IsMissingTableErrorCodeOnly(e) == e # NoError /\ e.code = "42P01"

\* Faulty variant: every error of the probe counts as a missing table.
IsMissingTableErrorAnyError(e) == e # NoError

\* The probe's error is of the "table does not exist" class.
\* e is NoError or [code, dne]; dne: the message contains 'does not exist'.
IsMissingTableError(e) == e # NoError /\ (e.code = "42P01" \/ e.dne)

\* Faulty variant: every failed read falls through to the insert.
ReadDecisionInsertOnAnyError(data, error) ==
    IF data # NullUser THEN "return_profile" ELSE "insert"

\* Faulty variant: the test on the error code is inverted.
ReadDecisionInvertedCode(data, error) ==
    IF data # NullUser THEN "return_profile"
    ELSE IF error = "PGRST116" THEN "return_null"
    ELSE "insert"

\* What getOrCreateUserProfile does with the read's {data, error}.
ReadDecision(data, error) ==
    IF data # NullUser THEN "return_profile"
    ELSE IF error # NULL /\ error # "PGRST116" THEN "return_null"
    ELSE "insert"

\* Faulty variant: the fallback grants admin.
FallbackProfileAdmin(user) == [id |-> user, role |-> "admin"]

\* The row the fallback path inserts for a subject.
FallbackProfile(user) == [id |-> user, role |-> "staff"]

\* ------------------------------------------------- remote collaborator

\* Responses of select('id').limit(1) on profiles.
ProbeResponses ==
    IF schema
    THEN {NoError, [code |-> "other", dne |-> FALSE]}
    ELSE {[code |-> "42P01", dne |-> TRUE], [code |-> "42P01", dne |-> FALSE],
          [code |-> "other", dne |-> TRUE], [code |-> "other", dne |-> FALSE]}

\* Responses of select('*').eq('id', u).single().
ReadResponses(u) ==
    IF schema /\ profiles[u] # NoRow
    THEN {[data |-> profiles[u], error |-> NULL], [data |-> NullUser, error |-> "other"]}
    ELSE IF schema
    THEN {[data |-> NullUser, error |-> "PGRST116"], [data |-> NullUser, error |-> "other"]}
    ELSE {[data |-> NullUser, error |-> "other"]}

\* Responses of insert(row).select().single(): the primary key is unique.
InsertResponses(row) ==
    IF schema /\ profiles[row.id] = NoRow
    THEN {[data |-> row, error |-> NULL], [data |-> NullUser, error |-> "other"]}
    ELSE {[data |-> NullUser, error |-> "other"]}

\* endState before initializeApp has returned
NoEnd == [screen |-> "none", session |-> NULL, currentUser |-> NullUser,
          loginMessage |-> NULL, signOutCalls |-> 0, getSessionCalls |-> 0,
          live |-> FALSE]

\* ------------------------------------------------------------------- Init
VARIABLES
    \* App: the user list handed to SettingsModal, and whether it is open
    users, isSettingsOpen,
    \* SettingsModal: the section shown and the role picked in the form
    currentView, newUserRole,
    \* the user-management request awaiting its response, the number of
    \* fetchUsers queries in flight, and the history of requests issued,
    \* each with the role of the identity that issued it
    userOp, fetches, userOps,
    \* SettingsModal, Templates section: its working copy of the templates,
    \* the id of the template selected in it, and the ids of the templates of
    \* the copy whose objects are still the ones App holds
    localTemplates, selectedTemplateId, sharedTemplates

templateVars == <<localTemplates, selectedTemplateId, sharedTemplates>>
settingsVars == <<users, isSettingsOpen, currentView, newUserRole, userOp, fetches, userOps,
                  templateVars>>

VARIABLES
    \* UI state of App, the invoice held by a mounted InvoiceForm, and the
    \* clock read by Date.now()
    view, selectedInvoice, invoiceToEdit, formInvoice, clock,
    \* the other values App keeps with useLocalStorage
    products, templates, businessProfile, appIcon, loginBackground,
    \* window.localStorage, and isLoading of each useLocalStorage key
    storage, isLoading,
    \* a background upload of handleSaveSettings is awaited; position of
    \* handleLogout; whether the data was left alone since the last logout
    uploading, logoutPc, sinceLogout

uiVars == <<view, selectedInvoice, invoiceToEdit, formInvoice, clock>>
dataVars == <<products, templates, businessProfile, appIcon, loginBackground>>
storeVars == <<dataVars, storage, isLoading, uploading, logoutPc, sinceLogout>>

\* What the actions of one part of the app leave alone in the other parts.
appVars == <<invoices, reportVars, settingsVars, uiVars, storeVars>>
reportFrame == <<bootVars, invoices, settingsVars, uiVars, storeVars>>
settingsFrame == <<reactVars, mount, schema, remoteSession, initVars, cbs, countVars,
                   histVars, invoices, reportVars, uiVars, storeVars, templateVars>>
templateFrame == <<bootVars, invoices, reportVars, users, isSettingsOpen, currentView,
                   newUserRole, userOp, fetches, userOps, view, selectedInvoice,
                   invoiceToEdit, formInvoice, products, businessProfile, appIcon,
                   loginBackground, storage, isLoading, uploading, logoutPc, sinceLogout>>
uiFrame == <<bootVars, reportVars, settingsVars, dataVars, isLoading, uploading, logoutPc>>

vars == <<bootVars, invoices, reportVars, settingsVars, uiVars, storeVars>>

\* null of an invoice value (selectedInvoice, invoiceToEdit)
NoInvoice ==
    [id |-> 0, issueDate |-> [y |-> 0, m |-> 0, d |-> 0], billToName |-> "",
     lineItems |-> <<>>]

\* The keys of useLocalStorage in the order of the hook calls, and the
\* initialValue of each.
Keys == <<"invoices", "products", "templates", "businessProfile", "appIcon",
          "loginBackground">>
KeySet == {Keys[i] : i \in 1..Len(Keys)}

SAMPLE_PRODUCTS == <<"sample product">>
DEFAULT_TEMPLATE == [id |-> "default", isDefault |-> TRUE]
DefaultBusinessProfile == [name |-> "God Favor Business Center", logoUrl |-> ""]
DEFAULT_APP_ICON == "default icon"
DefaultLoginBackground == "/default-background.jpg"

InitialValue(key) ==
    CASE key = "invoices" -> <<>>
      [] key = "products" -> SAMPLE_PRODUCTS
      [] key = "templates" -> <<DEFAULT_TEMPLATE>>
      [] key = "businessProfile" -> DefaultBusinessProfile
      [] key = "appIcon" -> DEFAULT_APP_ICON
      [] key = "loginBackground" -> DefaultLoginBackground

\* An item of localStorage: absent (getItem gives null), or the JSON text of
\* a value; JSON.stringify and JSON.parse.
NoItem(key) == [present |-> FALSE, json |-> InitialValue(key)]
Stringify(value) == [present |-> TRUE, json |-> value]
Parse(item) == item.json

\* The list view with no form mounted.
UiIdle ==
    /\ view = "list"
    /\ selectedInvoice = NoInvoice
    /\ invoiceToEdit = NoInvoice
    /\ formInvoice = NoInvoice
    /\ clock = 0

DataAtDefaults ==
    /\ products = SAMPLE_PRODUCTS
    /\ templates = <<DEFAULT_TEMPLATE>>
    /\ businessProfile = DefaultBusinessProfile
    /\ appIcon = DEFAULT_APP_ICON
    /\ loginBackground = DefaultLoginBackground

\* useLocalStorage just constructed on an empty localStorage.
StoreIdle ==
    /\ DataAtDefaults
    /\ storage = [k \in KeySet |-> NoItem(k)]
    /\ isLoading = [k \in KeySet |-> TRUE]
    /\ uploading = FALSE
    /\ logoutPc = "idle"
    /\ sinceLogout = FALSE

\* Every key was loaded from an empty localStorage and written back.
StoreLoaded ==
    /\ DataAtDefaults
    /\ storage = [k \in KeySet |-> Stringify(InitialValue(k))]
    /\ isLoading = [k \in KeySet |-> FALSE]
    /\ uploading = FALSE
    /\ logoutPc = "idle"
    /\ sinceLogout = FALSE

\* SettingsModal is closed and no user-management request was made.
NoUserOp == [op |-> "none", id |-> NULL, role |-> NULL]

\* The Templates section of SettingsModal is not on screen.
TemplatesIdle ==
    /\ localTemplates = <<>>
    /\ selectedTemplateId = NULL
    /\ sharedTemplates = {}

SettingsIdle ==
    /\ TemplatesIdle
    /\ users = {}
    /\ isSettingsOpen = FALSE
    /\ currentView = "businessProfile"
    /\ newUserRole = "staff"
    /\ userOp = NoUserOp
    /\ fetches = 0
    /\ userOps = {}

BootInit ==
    /\ session = NULL
    /\ currentUser = NullUser
    /\ isAuthLoading = TRUE
    /\ needsDbSetup = FALSE
    /\ loginMessage = NULL
    /\ mount = "pending"
    /\ schema \in BOOLEAN
    /\ profiles \in [Subjects -> ProfileRows \cup {NoRow}]
    /\ \A u \in Subjects : profiles[u] # NoRow => schema /\ profiles[u].id = u
    /\ remoteSession \in Sessions
    /\ initPc = "idle"
    /\ initSession = NULL
    /\ initHad = FALSE
    /\ initProbe = NoError
    /\ initRead = NULL
    /\ initInsert = NULL
    /\ cbs = <<>>
    /\ notified = 0
    /\ getSessionCalls = 0
    /\ signOutCalls = 0
    /\ insertCalls = [u \in Subjects |-> 0]
    /\ calls = {}
    /\ insertedRows = {}
    /\ cbDuringInit = FALSE
    /\ lateUpdate = FALSE
    /\ endState = NoEnd

\* ---------------------------------------------------------------- helpers

\* A batch of setState calls: React drops updates of an unmounted component;
\* the invocation after teardown is recorded.
SetState(s, u, l, n, m) ==
    IF mount = "mounted"
    THEN /\ session' = s
         /\ currentUser' = u
         /\ isAuthLoading' = l
         /\ needsDbSetup' = n
         /\ loginMessage' = m
         /\ lateUpdate' = lateUpdate
    ELSE /\ UNCHANGED reactVars
         /\ lateUpdate' = TRUE

\* initializeApp returned: the state it leaves behind.
EndSnapshot ==
    endState' = [screen |-> ScreenOf(isAuthLoading', needsDbSetup', session', currentUser'),
                 session |-> session',
                 currentUser |-> currentUser',
                 loginMessage |-> loginMessage',
                 signOutCalls |-> signOutCalls,
                 getSessionCalls |-> getSessionCalls,
                 live |-> mount = "mounted"]

\* by: the caller, "init" (initializeApp) or "callback" (the auth listener)
CallRecord(by, u, had, read, inserts, result) ==
    [by |-> by, subject |-> u, had |-> had, read |-> read, inserts |-> inserts, result |-> result]

ReadKind(r) ==
    IF r.data # NullUser THEN "found"
    ELSE IF r.error = "PGRST116" THEN "notfound" ELSE "error"

Remove(seq, i) == SubSeq(seq, 1, i - 1) \o SubSeq(seq, i + 1, Len(seq))

InitInFlight == initPc \in {"probe", "getSession", "read", "insert", "signOut"}

\* ------------------------------------------------------- the mount effect

\* useEffect body: initializeApp() runs up to its first await (the probe is
\* issued), then onAuthStateChange installs the listener, in one turn.
Mount ==
    /\ mount = "pending"
    /\ mount' = "mounted"
    /\ initPc' = "probe"
    /\ UNCHANGED <<reactVars, remoteVars, initSession, initHad, initProbe, initRead,
                   initInsert, cbs, countVars, histVars>>

\* The effect's cleanup: subscription.unsubscribe().
Unmount ==
    /\ mount = "mounted"
    /\ mount' = "torn"
    /\ UNCHANGED <<reactVars, remoteVars, initVars, cbs, countVars, histVars>>

\* ---------------------------------------------------------- initializeApp

\* An awaited call rejected: the async function ends by throwing.
InitRejected ==
    /\ initPc' = "rejected"
    /\ UNCHANGED <<reactVars, mount, remoteVars, initSession, initHad, cbs, countVars,
                   histVars>>

\* The probe answered.
InitProbeReturn ==
    /\ initPc = "probe"
    /\ \E r \in ProbeResponses \cup {RejectedProbe} :
        /\ initProbe' = r
        /\ UNCHANGED <<initRead, initInsert>>
        /\ IF r = RejectedProbe THEN InitRejected
           ELSE IF IsMissingTableError(r)
           THEN /\ SetState(session, currentUser, FALSE, TRUE, loginMessage)
                /\ initPc' = "done"
                /\ EndSnapshot
                /\ UNCHANGED <<mount, remoteVars, initSession, initHad, cbs, countVars,
                               calls, insertedRows, cbDuringInit>>
           ELSE /\ initPc' = "getSession"
                /\ getSessionCalls' = getSessionCalls + 1
                /\ UNCHANGED <<reactVars, mount, remoteVars, initSession, initHad, cbs,
                               notified, signOutCalls, insertCalls, histVars>>

\* getSession answered: the stored session, or none (also on an error result).
InitGetSessionReturn ==
    /\ initPc = "getSession"
    /\ \E r \in {remoteSession, NULL, Reject} :
        /\ UNCHANGED <<initProbe, initRead, initInsert>>
        /\ IF r = Reject THEN InitRejected
           ELSE IF r # NULL
           THEN /\ initSession' = r
                /\ initHad' = (schema /\ profiles[r] # NoRow)
                /\ initPc' = "read"
                /\ UNCHANGED <<reactVars, mount, remoteVars, cbs, countVars, histVars>>
           ELSE /\ SetState(NULL, NullUser, FALSE, needsDbSetup, loginMessage)
                /\ initPc' = "done"
                /\ EndSnapshot
                /\ UNCHANGED <<mount, remoteVars, initSession, initHad, cbs, countVars,
                               calls, insertedRows, cbDuringInit>>

\* Faulty variant: the failure branch sets no advisory message.
InitResolvedNoMessage(p) ==
    IF p # NullUser
    THEN /\ SetState(initSession, p, FALSE, needsDbSetup, loginMessage)
         /\ initPc' = "done"
         /\ signOutCalls' = signOutCalls
         /\ EndSnapshot
    ELSE /\ SetState(session, currentUser, isAuthLoading, needsDbSetup, loginMessage)
         /\ initPc' = "signOut"
         /\ signOutCalls' = signOutCalls + 1
         /\ endState' = endState

\* Faulty variant: the success branch sets the session but not the identity.
InitResolvedSessionOnly(p) ==
    IF p # NullUser
    THEN /\ SetState(initSession, currentUser, FALSE, needsDbSetup, loginMessage)
         /\ initPc' = "done"
         /\ signOutCalls' = signOutCalls
         /\ EndSnapshot
    ELSE /\ SetState(session, currentUser, isAuthLoading, needsDbSetup, ProfileErrorMessage)
         /\ initPc' = "signOut"
         /\ signOutCalls' = signOutCalls + 1
         /\ endState' = endState

\* getOrCreateUserProfile returned p to initializeApp.
InitResolved(p) ==
    IF p # NullUser
    THEN /\ SetState(initSession, p, FALSE, needsDbSetup, loginMessage)
         /\ initPc' = "done"
         /\ signOutCalls' = signOutCalls
         /\ EndSnapshot
    ELSE /\ SetState(session, currentUser, isAuthLoading, needsDbSetup, ProfileErrorMessage)
         /\ initPc' = "signOut"
         /\ signOutCalls' = signOutCalls + 1
         /\ endState' = endState

\* The profile read of the startup resolution answered.
InitReadReturn ==
    /\ initPc = "read"
    /\ \E r \in ReadResponses(initSession) \cup {RejectedQuery} :
        /\ UNCHANGED <<initProbe, initInsert>>
        /\ IF r = RejectedQuery THEN initRead' = Reject /\ InitRejected
           ELSE /\ initRead' = ReadKind(r)
                /\ UNCHANGED <<mount, remoteVars, initSession, initHad, cbs, notified,
                               getSessionCalls, insertedRows, cbDuringInit>>
                /\ CASE ReadDecision(r.data, r.error) = "return_profile" ->
                          /\ InitResolved(r.data)
                          /\ calls' = calls \cup
                                {CallRecord("init", initSession, initHad, ReadKind(r), 0, r.data)}
                          /\ UNCHANGED insertCalls
                     [] ReadDecision(r.data, r.error) = "return_null" ->
                          /\ InitResolved(NullUser)
                          /\ calls' = calls \cup
                                {CallRecord("init", initSession, initHad, ReadKind(r), 0, NullUser)}
                          /\ UNCHANGED insertCalls
                     [] ReadDecision(r.data, r.error) = "insert" ->
                          /\ initPc' = "insert"
                          /\ insertCalls' = [insertCalls EXCEPT ![initSession] = @ + 1]
                          /\ UNCHANGED <<reactVars, signOutCalls, calls, lateUpdate,
                                         endState>>

\* The fallback insert of the startup resolution answered.
InitInsertReturn ==
    /\ initPc = "insert"
    /\ \E r \in InsertResponses(FallbackProfile(initSession)) \cup {RejectedQuery} :
        /\ UNCHANGED <<initProbe, initRead>>
        /\ IF r = RejectedQuery THEN initInsert' = Reject /\ InitRejected
           ELSE /\ initInsert' = (IF r.error = NULL THEN "ok" ELSE "fail")
                /\ UNCHANGED <<mount, schema, remoteSession, initSession, initHad, cbs,
                               notified, getSessionCalls, insertCalls, cbDuringInit>>
                /\ IF r.error = NULL
                   THEN /\ profiles' = [profiles EXCEPT ![initSession] = r.data]
                        /\ insertedRows' = insertedRows \cup
                              {[subject |-> initSession, row |-> r.data]}
                        /\ InitResolved(r.data)
                        /\ calls' = calls \cup
                              {CallRecord("init", initSession, initHad, initRead, 1, r.data)}
                   ELSE /\ UNCHANGED <<profiles, insertedRows>>
                        /\ InitResolved(NullUser)
                        /\ calls' = calls \cup
                              {CallRecord("init", initSession, initHad, initRead, 1, NullUser)}

\* signOut answered. On success the provider drops the session and notifies
\* the listener (SIGNED_OUT, null), whose callback sets the same values.
InitSignOutReturn ==
    /\ initPc = "signOut"
    /\ \E r \in {"ok", "error", Reject} :
        /\ UNCHANGED <<initProbe, initRead, initInsert>>
        /\ IF r = Reject THEN InitRejected
           ELSE /\ remoteSession' = (IF r = "ok" THEN NULL ELSE remoteSession)
                /\ cbDuringInit' = (cbDuringInit \/ (r = "ok" /\ mount = "mounted"))
                /\ SetState(NULL, NullUser, FALSE, needsDbSetup, loginMessage)
                /\ initPc' = "done"
                /\ EndSnapshot
                /\ UNCHANGED <<mount, schema, profiles, initSession, initHad, cbs,
                               countVars, calls, insertedRows>>

\* ------------------------------------------- onAuthStateChange callbacks

\* The provider's session changes to s (sign-in, sign-out in any tab, token
\* refresh, the initial-session event) and the subscribed listener is
\* notified; after unsubscribe no notification is delivered. The callback
\* runs to its first await: setSession(s), then either the profile read is
\* issued or setCurrentUser(null).
AuthChange(s) ==
    /\ mount = "mounted"
    /\ notified < MaxNotifications
    /\ notified' = notified + 1
    /\ remoteSession' = s
    /\ cbDuringInit' = (cbDuringInit \/ InitInFlight)
    /\ UNCHANGED <<mount, schema, profiles, initVars, getSessionCalls, signOutCalls,
                   insertCalls, calls, insertedRows, endState>>
    /\ IF s # NULL
       THEN /\ SetState(s, currentUser, isAuthLoading, needsDbSetup, loginMessage)
            /\ cbs' = Append(cbs, [sess |-> s, pc |-> "read",
                                   had |-> (schema /\ profiles[s] # NoRow)])
       ELSE /\ SetState(NULL, NullUser, isAuthLoading, needsDbSetup, loginMessage)
            /\ cbs' = cbs

\* getOrCreateUserProfile returned p to a callback: setCurrentUser(p).
CbResolved(p) ==
    SetState(session, p, isAuthLoading, needsDbSetup, loginMessage)

\* The profile read of callback i answered.
CbReadReturn(i) ==
    /\ cbs[i].pc = "read"
    /\ UNCHANGED <<mount, remoteVars, initVars, notified, getSessionCalls, signOutCalls,
                   insertedRows, cbDuringInit, endState>>
    /\ \E r \in ReadResponses(cbs[i].sess) \cup {RejectedQuery} :
        IF r = RejectedQuery
        THEN /\ cbs' = Remove(cbs, i)
             /\ UNCHANGED <<reactVars, insertCalls, calls, lateUpdate>>
        ELSE CASE ReadDecision(r.data, r.error) = "return_profile" ->
                    /\ CbResolved(r.data)
                    /\ cbs' = Remove(cbs, i)
                    /\ calls' = calls \cup
                          {CallRecord("callback", cbs[i].sess, cbs[i].had, ReadKind(r), 0, r.data)}
                    /\ UNCHANGED insertCalls
               [] ReadDecision(r.data, r.error) = "return_null" ->
                    /\ CbResolved(NullUser)
                    /\ cbs' = Remove(cbs, i)
                    /\ calls' = calls \cup
                          {CallRecord("callback", cbs[i].sess, cbs[i].had, ReadKind(r), 0, NullUser)}
                    /\ UNCHANGED insertCalls
               [] ReadDecision(r.data, r.error) = "insert" ->
                    /\ cbs' = [cbs EXCEPT ![i].pc = "insert"]
                    /\ insertCalls' = [insertCalls EXCEPT ![cbs[i].sess] = @ + 1]
                    /\ UNCHANGED <<reactVars, calls, lateUpdate>>

\* The fallback insert of callback i answered.
CbInsertReturn(i) ==
    /\ cbs[i].pc = "insert"
    /\ UNCHANGED <<mount, schema, remoteSession, initVars, countVars, cbDuringInit,
                   endState>>
    /\ \E r \in InsertResponses(FallbackProfile(cbs[i].sess)) \cup {RejectedQuery} :
        /\ cbs' = Remove(cbs, i)
        /\ IF r = RejectedQuery
           THEN UNCHANGED <<reactVars, profiles, calls, insertedRows, lateUpdate>>
           ELSE IF r.error = NULL
           THEN /\ profiles' = [profiles EXCEPT ![cbs[i].sess] = r.data]
                /\ insertedRows' = insertedRows \cup
                      {[subject |-> cbs[i].sess, row |-> r.data]}
                /\ CbResolved(r.data)
                /\ calls' = calls \cup
                      {CallRecord("callback", cbs[i].sess, cbs[i].had, "notfound", 1, r.data)}
           ELSE /\ UNCHANGED <<profiles, insertedRows>>
                /\ CbResolved(NullUser)
                /\ calls' = calls \cup
                      {CallRecord("callback", cbs[i].sess, cbs[i].had, "notfound", 1, NullUser)}

\* -------------------------------------------------------------- behaviour
\* ================================================== aggregation engine
\* An issueDate 'YYYY-MM-DD' is the record [y, m, d]; a month key 'YYYY-MM'
\* is [y, m]. An instant (a JavaScript Date) is a number of hours since
\* 00:00 UTC of 1 January of BaseYear.

\* First year of the modelled calendar (the origin of the time axis).
BaseYear == 2023

IsLeap(y) == (y % 4 = 0 /\ y % 100 # 0) \/ y % 400 = 0

DaysInMonth(y, m) ==
    IF m \in {4, 6, 9, 11} THEN 30
    ELSE IF m = 2 THEN (IF IsLeap(y) THEN 29 ELSE 28)
    ELSE 31

\* Leap years before year y, days from BaseYear to year y, days of year y
\* before month m.
LeapsBefore(y) == ((y - 1) \div 4) - ((y - 1) \div 100) + ((y - 1) \div 400)

DaysBeforeYear(y) == 365 * (y - BaseYear) + LeapsBefore(y) - LeapsBefore(BaseYear)

DaysBeforeMonth(y, m) ==
    <<0, 31, 59, 90, 120, 151, 181, 212, 243, 273, 304, 334>>[m]
        + (IF m > 2 /\ IsLeap(y) THEN 1 ELSE 0)

\* Day number of a calendar date, and the calendar date of a day number.
Serial(d) == DaysBeforeYear(d.y) + DaysBeforeMonth(d.y, d.m) + (d.d - 1)

DateOfSerial(n) ==
    LET y == CHOOSE yy \in BaseYear..(BaseYear + 4) :
                 DaysBeforeYear(yy) <= n /\ n < DaysBeforeYear(yy + 1)
        r == n - DaysBeforeYear(y)
        m == CHOOSE mm \in 1..12 :
                 DaysBeforeMonth(y, mm) <= r /\ r < DaysBeforeMonth(y, mm) + DaysInMonth(y, mm)
    IN  [y |-> y, m |-> m, d |-> r - DaysBeforeMonth(y, m) + 1]

\* new Date('YYYY-MM-DD'): a date-only string is midnight UTC.
ParseDateOnly(d) == Serial(d) * 24

\* new Date('YYYY-MM-DD' + 'T00:00:00'): a date-time string without zone is
\* midnight in the viewer's local time.
ParseLocalMidnight(d) == Serial(d) * 24 - tz

\* The local calendar date of an instant; getFullYear(), getMonth() (0-based).
LocalDate(t) == DateOfSerial((t + tz) \div 24)
GetFullYear(t) == LocalDate(t).y
GetMonth(t) == LocalDate(t).m - 1

\* toISOString().split('T')[0]: the UTC calendar date of an instant.
IsoDate(t) == DateOfSerial(t \div 24)

\* ---------------------------------------------------- ReportsDashboard

\* invoice.lineItems.reduce((acc, item) => acc + item.quantity * item.price, 0)
RECURSIVE InvoiceTotalOfItems(_)
InvoiceTotalOfItems(items) ==
    IF items = <<>> THEN 0
    ELSE InvoiceTotalOfItems(SubSeq(items, 1, Len(items) - 1))
            + items[Len(items)].quantity * items[Len(items)].price

\* Faulty variant: only the first line item is billed.
InvoiceTotalFirstItem(invoice) ==
    IF invoice.lineItems = <<>> THEN 0
    ELSE invoice.lineItems[1].quantity * invoice.lineItems[1].price

InvoiceTotal(invoice) == InvoiceTotalOfItems(invoice.lineItems)

DayKey(invoice) == invoice.issueDate

\* Faulty variant: the issue date is parsed as a date-only (UTC) string.
MonthKeyUtcParse(invoice) ==
    LET issueDate == ParseDateOnly(invoice.issueDate)
    IN  [y |-> GetFullYear(issueDate), m |-> GetMonth(issueDate) + 1]

\* `${getFullYear()}-${String(getMonth() + 1).padStart(2, '0')}` of the issue
\* date parsed as local midnight.
MonthKey(invoice) ==
    LET issueDate == ParseLocalMidnight(invoice.issueDate)
    IN  [y |-> GetFullYear(issueDate), m |-> GetMonth(issueDate) + 1]

HasKey(rows, key) == \E i \in 1..Len(rows) : rows[i].date = key

KeyIndex(rows, key) == CHOOSE i \in 1..Len(rows) : rows[i].date = key

\* Faulty variant: an existing entry is replaced instead of accumulated.
AddToReportReplacing(rows, key, name, total) ==
    LET fresh == [date |-> key, customers |-> {name}, invoiceCount |-> 1,
                  totalBilled |-> total]
    IN  IF HasKey(rows, key)
        THEN [rows EXCEPT ![KeyIndex(rows, key)] = fresh]
        ELSE Append(rows, fresh)

\* Faulty variant: the customers are kept as a list, so repeats are counted.
AddToReportCountingRepeats(rows, key, name, total) ==
    IF HasKey(rows, key)
    THEN [rows EXCEPT ![KeyIndex(rows, key)] =
            [@ EXCEPT !.customers = @ \cup {<<name, Cardinality(@)>>},
                      !.invoiceCount = @ + 1,
                      !.totalBilled = @ + total]]
    ELSE Append(rows, [date |-> key, customers |-> {<<name, 0>>}, invoiceCount |-> 1,
                       totalBilled |-> total])

\* One invoice added to a Map of report items (kept in insertion order):
\* the entry is created when missing, then customers.add, invoiceCount++,
\* totalBilled += invoiceTotal.
AddToReport(rows, key, name, total) ==
    IF HasKey(rows, key)
    THEN [rows EXCEPT ![KeyIndex(rows, key)] =
            [@ EXCEPT !.customers = @ \cup {name},
                      !.invoiceCount = @ + 1,
                      !.totalBilled = @ + total]]
    ELSE Append(rows, [date |-> key, customers |-> {name}, invoiceCount |-> 1,
                       totalBilled |-> total])

\* invoices.forEach: the daily and the monthly Map after the first n invoices.
RECURSIVE DailyMap(_, _)
DailyMap(invs, n) ==
    IF n = 0 THEN <<>>
    ELSE AddToReport(DailyMap(invs, n - 1), DayKey(invs[n]), invs[n].billToName,
                     InvoiceTotal(invs[n]))

RECURSIVE MonthlyMap(_, _)
MonthlyMap(invs, n) ==
    IF n = 0 THEN <<>>
    ELSE AddToReport(MonthlyMap(invs, n - 1), MonthKey(invs[n]), invs[n].billToName,
                     InvoiceTotal(invs[n]))

\* .map(([date, data]) => ({ date, ...data, uniqueCustomers: data.customers.size }))
ToReportRows(rows) ==
    [i \in 1..Len(rows) |->
        [date |-> rows[i].date, customers |-> rows[i].customers,
         invoiceCount |-> rows[i].invoiceCount, totalBilled |-> rows[i].totalBilled,
         uniqueCustomers |-> Cardinality(rows[i].customers)]]

\* Faulty variant: the comparator sorts ascending.
DailyCompareAscending(a, b) == ParseDateOnly(a.date) - ParseDateOnly(b.date)

\* (a, b) => new Date(b.date).getTime() - new Date(a.date).getTime()
DailyCompare(a, b) == ParseDateOnly(b.date) - ParseDateOnly(a.date)

\* (a, b) => new Date(b.date + '-01').getTime() - new Date(a.date + '-01').getTime()
MonthlyCompare(a, b) ==
    ParseDateOnly([y |-> b.date.y, m |-> b.date.m, d |-> 1])
        - ParseDateOnly([y |-> a.date.y, m |-> a.date.m, d |-> 1])

\* Array.prototype.sort (stable): x goes after every element that does not
\* compare greater than it.
RECURSIVE SortDaily(_)
SortDaily(rows) ==
    IF rows = <<>> THEN <<>>
    ELSE LET x == rows[Len(rows)]
             sorted == SortDaily(SubSeq(rows, 1, Len(rows) - 1))
             k == Cardinality({i \in 1..Len(sorted) : DailyCompare(sorted[i], x) <= 0})
         IN  SubSeq(sorted, 1, k) \o <<x>> \o SubSeq(sorted, k + 1, Len(sorted))

RECURSIVE SortMonthly(_)
SortMonthly(rows) ==
    IF rows = <<>> THEN <<>>
    ELSE LET x == rows[Len(rows)]
             sorted == SortMonthly(SubSeq(rows, 1, Len(rows) - 1))
             k == Cardinality({i \in 1..Len(sorted) : MonthlyCompare(sorted[i], x) <= 0})
         IN  SubSeq(sorted, 1, k) \o <<x>> \o SubSeq(sorted, k + 1, Len(sorted))

ComputeDailyReports(invs) == SortDaily(ToReportRows(DailyMap(invs, Len(invs))))
ComputeMonthlyReports(invs) == SortMonthly(ToReportRows(MonthlyMap(invs, Len(invs))))

\* ReportsDashboard renders: the useMemo body runs on the invoice list.
RenderReports ==
    /\ ~reportsDone
    /\ reportsDone' = TRUE
    /\ dailyReports' = ComputeDailyReports(invoices)
    /\ monthlyReports' = ComputeMonthlyReports(invoices)
    /\ UNCHANGED <<reportFrame, tz, now, statsDone, stats>>

\* ------------------------------------------------ CustomerStatsDashboard

\* The three Sets filled by invoices.forEach, for "new Date()" = t:
\* todayStr is the UTC date of t; currentMonth and currentYear are local;
\* the issue date is parsed as a date-only (UTC) string and read locally.
IssuedInYear(invoice, currentYear) ==
    GetFullYear(ParseDateOnly(invoice.issueDate)) = currentYear

IssuedInMonth(invoice, currentYear, currentMonth) ==
    LET issueDate == LocalDate(ParseDateOnly(invoice.issueDate))
    IN  issueDate.y = currentYear /\ issueDate.m - 1 = currentMonth

DailyCustomers(invs, t) ==
    LET todayStr == IsoDate(t)
    IN  {invs[i].billToName : i \in {j \in 1..Len(invs) : invs[j].issueDate = todayStr}}

MonthlyCustomers(invs, t) ==
    LET local == LocalDate(t)
        currentMonth == local.m - 1
        currentYear == local.y
    IN  {invs[i].billToName : i \in {j \in 1..Len(invs) :
            IssuedInMonth(invs[j], currentYear, currentMonth)}}

YearlyCustomers(invs, t) ==
    LET currentYear == LocalDate(t).y
    IN  {invs[i].billToName : i \in {j \in 1..Len(invs) : IssuedInYear(invs[j], currentYear)}}

CustomerStats(invs, t) ==
    [today |-> Cardinality(DailyCustomers(invs, t)),
     thisMonth |-> Cardinality(MonthlyCustomers(invs, t)),
     thisYear |-> Cardinality(YearlyCustomers(invs, t))]

\* CustomerStatsDashboard renders at instant t.
RenderStats(t) ==
    /\ ~statsDone
    /\ statsDone' = TRUE
    /\ now' = t
    /\ stats' = CustomerStats(invoices, t)
    /\ UNCHANGED <<reportFrame, tz, reportsDone, dailyReports, monthlyReports>>

\* ------------------------------------------- inputs of the dashboards
ReportDates ==
    {[y |-> 2024, m |-> 12, d |-> 31], [y |-> 2025, m |-> 1, d |-> 1],
     [y |-> 2025, m |-> 1, d |-> 31]}

\* Offsets of the viewer's zone to UTC, in hours.
TzOffsets == {-5, 0, 9}

\* Instants of rendering: early and late in the UTC day 2025-01-01.
NowInstants ==
    {ParseDateOnly([y |-> 2025, m |-> 1, d |-> 1]) + 2,
     ParseDateOnly([y |-> 2025, m |-> 1, d |-> 1]) + 22}

\* What is billed to whom: one order for each name, and a second order for
\* the first name.
CustomerOrders ==
    {[billToName |-> "Acme", lineItems |-> <<[quantity |-> 2, price |-> 10]>>],
     [billToName |-> "acme", lineItems |-> <<[quantity |-> 2, price |-> 10]>>],
     [billToName |-> "Acme",
      lineItems |-> <<[quantity |-> 1, price |-> 5], [quantity |-> 3, price |-> 1]>>]}

InvoiceBodies ==
    {[issueDate |-> d, billToName |-> o.billToName, lineItems |-> o.lineItems] :
        d \in ReportDates, o \in CustomerOrders}

InvoiceOf(i, body) ==
    [id |-> i, issueDate |-> body.issueDate, billToName |-> body.billToName,
     lineItems |-> body.lineItems]

InvoicesIdle == invoices = <<>>

ReportsIdle ==
    /\ tz = 0
    /\ now = 0
    /\ reportsDone = FALSE
    /\ dailyReports = <<>>
    /\ monthlyReports = <<>>
    /\ statsDone = FALSE
    /\ stats = [today |-> 0, thisMonth |-> 0, thisYear |-> 0]

\* The dashboards on an arbitrary invoice list, in an arbitrary zone; the
\* session bootstrap is not running.
BootIdle == BootInit /\ ~schema /\ remoteSession = NULL

ReportsInit ==
    /\ BootIdle
    /\ SettingsIdle
    /\ UiIdle
    /\ StoreIdle
    /\ \E n \in 0..MaxReportInvoices : \E bodies \in [1..n -> InvoiceBodies] :
          invoices = [i \in 1..n |-> InvoiceOf(i, bodies[i])]
    /\ tz \in TzOffsets
    /\ now = 0
    /\ reportsDone = FALSE
    /\ dailyReports = <<>>
    /\ monthlyReports = <<>>
    /\ statsDone = FALSE
    /\ stats = [today |-> 0, thisMonth |-> 0, thisYear |-> 0]

ReportsNext ==
    \/ RenderReports
    \/ \E t \in NowInstants : RenderStats(t)

SpecReports == ReportsInit /\ [][ReportsNext]_vars

\* ====================================================== user management
\* fetchUsers of App and the "User Management" section of SettingsModal.

SettingsViews == {"businessProfile", "users", "templates", "appIcon", "loginPage"}

\* The state initializeApp leaves when subject u has the profile row.
LoggedInAs(u, row) ==
    /\ session = u
    /\ currentUser = row
    /\ isAuthLoading = FALSE
    /\ needsDbSetup = FALSE
    /\ loginMessage = NULL
    /\ mount = "mounted"
    /\ schema = TRUE
    /\ profiles[u] = row
    /\ remoteSession = u
    /\ initPc = "done"
    /\ initSession = u
    /\ initHad = TRUE
    /\ initProbe = NoError
    /\ initRead = "found"
    /\ initInsert = NULL
    /\ cbs = <<>>
    /\ notified = 0
    /\ getSessionCalls = 1
    /\ signOutCalls = 0
    /\ insertCalls = [v \in Subjects |-> 0]
    /\ calls = {CallRecord("init", u, TRUE, "found", 0, row)}
    /\ insertedRows = {}
    /\ cbDuringInit = FALSE
    /\ lateUpdate = FALSE
    /\ endState = [screen |-> "LoggedIn", session |-> u, currentUser |-> row,
                   loginMessage |-> NULL, signOutCalls |-> 0, getSessionCalls |-> 1,
                   live |-> TRUE]

UserOpRecord(op, role) == [op |-> op, by |-> currentUser.role, role |-> role]

\* fetchUsers up to its await: an identity that is not admin gets the list of
\* itself; for an admin the query of all profiles is issued.
FetchUsers ==
    IF currentUser.role # "admin"
    THEN /\ users' = (IF currentUser # NullUser THEN {currentUser} ELSE {})
         /\ UNCHANGED <<fetches, userOps>>
    ELSE /\ fetches' = fetches + 1
         /\ userOps' = userOps \cup {UserOpRecord("list", NULL)}
         /\ users' = users

\* Responses of select('*') on profiles: all rows, or an error result.
UserListResponses ==
    {[data |-> {profiles[u] : u \in {v \in Subjects : profiles[v] # NoRow}}, error |-> NULL],
     [data |-> {}, error |-> "other"]}

\* Faulty variant: a failed query empties the list.
UsersAfterFetchClearsOnError(r) == IF r.error # NULL THEN {} ELSE r.data

\* The list after the answer: setUsers(data), or only a log entry on an error.
UsersAfterFetch(r) == IF r.error # NULL THEN users ELSE r.data

\* The query of all profiles answered with r.
FetchUsersReturnWith(r) ==
    /\ fetches > 0
    /\ fetches' = fetches - 1
    /\ users' = UsersAfterFetch(r)
    /\ UNCHANGED <<settingsFrame, profiles, isSettingsOpen, currentView, newUserRole,
                   userOp, userOps>>

FetchUsersReturn == \E r \in UserListResponses : FetchUsersReturnWith(r)

\* The app is on screen: neither the splash screen (isAuthLoading ||
\* isLocalDataLoading) nor the setup screen nor the login page.
AppReady == Screen = "LoggedIn" /\ \A k \in KeySet : ~isLoading[k]

\* The settings button of the header; SettingsModal mounts with its initial
\* state when isSettingsOpen && currentUser.
OpenSettings ==
    /\ AppReady
    /\ ~isSettingsOpen
    /\ isSettingsOpen' = TRUE
    /\ currentView' = "businessProfile"
    /\ newUserRole' = "staff"
    /\ UNCHANGED <<settingsFrame, profiles, users, userOp, fetches, userOps>>

\* onClose: the modal unmounts and its local state is gone.
CloseSettings ==
    /\ isSettingsOpen
    /\ isSettingsOpen' = FALSE
    /\ currentView' = "businessProfile"
    /\ newUserRole' = "staff"
    /\ UNCHANGED <<settingsFrame, profiles, users, userOp, fetches, userOps>>

\* A NavButton of the modal: every section is listed for every identity.
NavButton(v) ==
    /\ isSettingsOpen
    /\ currentView' = v
    /\ UNCHANGED <<settingsFrame, profiles, users, isSettingsOpen, newUserRole, userOp,
                   fetches, userOps>>

\* The Role select of the "Create New User" form.
SetNewUserRole(r) ==
    /\ isSettingsOpen
    /\ currentView = "users"
    /\ newUserRole' = r
    /\ UNCHANGED <<settingsFrame, profiles, users, isSettingsOpen, currentView, userOp,
                   fetches, userOps>>

\* handleCreateUser with the three fields filled in, up to its await:
\* supabase.auth.signUp is called with role: newUserRole.
HandleCreateUser ==
    /\ isSettingsOpen
    /\ currentView = "users"
    /\ userOp = NoUserOp
    /\ userOp' = [op |-> "create", id |-> NULL, role |-> newUserRole]
    /\ userOps' = userOps \cup {UserOpRecord("signUp", newUserRole)}
    /\ UNCHANGED <<settingsFrame, profiles, users, isSettingsOpen, currentView,
                   newUserRole, fetches>>

\* signUp answered: on success the form is reset and the list refreshed.
CreateUserReturn ==
    /\ userOp.op = "create"
    /\ fetches < MaxPendingFetches
    /\ userOp' = NoUserOp
    /\ \E ok \in BOOLEAN :
          IF ok THEN newUserRole' = "staff" /\ FetchUsers
          ELSE UNCHANGED <<newUserRole, users, fetches, userOps>>
    /\ UNCHANGED <<settingsFrame, profiles, isSettingsOpen, currentView>>

\* The Role select of a listed row (disabled on the own row), where
\* handleRoleChange also refuses the own id: the update is issued.
HandleRoleChange(userId, newRole) ==
    /\ isSettingsOpen
    /\ currentView = "users"
    /\ userOp = NoUserOp
    /\ \E row \in users : row.id = userId /\ row.role # newRole
    /\ userId # currentUser.id
    /\ userOp' = [op |-> "role", id |-> userId, role |-> newRole]
    /\ userOps' = userOps \cup {UserOpRecord("role", newRole)}
    /\ UNCHANGED <<settingsFrame, profiles, users, isSettingsOpen, currentView,
                   newUserRole, fetches>>

\* The Delete button of a listed row (absent on the own row), confirmed.
HandleDeleteUser(userId) ==
    /\ isSettingsOpen
    /\ currentView = "users"
    /\ userOp = NoUserOp
    /\ \E row \in users : row.id = userId
    /\ userId # currentUser.id
    /\ userOp' = [op |-> "delete", id |-> userId, role |-> NULL]
    /\ userOps' = userOps \cup {UserOpRecord("delete", NULL)}
    /\ UNCHANGED <<settingsFrame, profiles, users, isSettingsOpen, currentView,
                   newUserRole, fetches>>

\* The update or delete on profiles answered: on success the list is
\* refreshed.
UserOpReturn ==
    /\ userOp.op \in {"role", "delete"}
    /\ fetches < MaxPendingFetches
    /\ userOp' = NoUserOp
    /\ \E ok \in BOOLEAN :
          IF ok
          THEN /\ profiles' =
                    IF profiles[userOp.id] = NoRow THEN profiles
                    ELSE IF userOp.op = "delete"
                    THEN [profiles EXCEPT ![userOp.id] = NoRow]
                    ELSE [profiles EXCEPT ![userOp.id].role = userOp.role]
               /\ FetchUsers
          ELSE UNCHANGED <<profiles, users, fetches, userOps>>
    /\ UNCHANGED <<settingsFrame, isSettingsOpen, currentView, newUserRole>>

\* The app just after login as u1, admin or staff, once the login effect has
\* called fetchUsers; a second profile may exist.
SettingsInit ==
    /\ profiles \in [Subjects -> ProfileRows \cup {NoRow}]
    /\ \A u \in Subjects : profiles[u] # NoRow => profiles[u].id = u
    /\ \E role \in Roles : LoggedInAs("u1", [id |-> "u1", role |-> role])
    /\ InvoicesIdle
    /\ ReportsIdle
    /\ UiIdle
    /\ StoreLoaded
    /\ TemplatesIdle
    /\ isSettingsOpen = FALSE
    /\ currentView = "businessProfile"
    /\ newUserRole = "staff"
    /\ userOp = NoUserOp
    /\ IF currentUser.role = "admin"
       THEN users = {} /\ fetches = 1 /\ userOps = {UserOpRecord("list", NULL)}
       ELSE users = {currentUser} /\ fetches = 0 /\ userOps = {}

SettingsNext ==
    \/ FetchUsersReturn
    \/ OpenSettings
    \/ CloseSettings
    \/ \E v \in SettingsViews : NavButton(v)
    \/ \E r \in Roles : SetNewUserRole(r)
    \/ HandleCreateUser
    \/ CreateUserReturn
    \/ \E u \in Subjects, r \in Roles : HandleRoleChange(u, r)
    \/ \E u \in Subjects : HandleDeleteUser(u)
    \/ UserOpReturn

SpecSettings == SettingsInit /\ [][SettingsNext]_vars

\* ================================================== invoices and storage
\* The value App holds for a key, before and after the step.
StoredValue(key) ==
    CASE key = "invoices" -> invoices
      [] key = "products" -> products
      [] key = "templates" -> templates
      [] key = "businessProfile" -> businessProfile
      [] key = "appIcon" -> appIcon
      [] key = "loginBackground" -> loginBackground

StoredValueNext(key) ==
    CASE key = "invoices" -> invoices'
      [] key = "products" -> products'
      [] key = "templates" -> templates'
      [] key = "businessProfile" -> businessProfile'
      [] key = "appIcon" -> appIcon'
      [] key = "loginBackground" -> loginBackground'

\* Faulty variant: the write effect does not wait for the load.
WriteEffectsWhileLoading ==
    storage' = [k \in KeySet |-> Stringify(StoredValueNext(k))]

\* The write effects of useLocalStorage after the render that follows a
\* step: for each key whose storedValue or isLoading changed, setItem of the
\* JSON text unless the key is still loading.
WriteEffects ==
    storage' = [k \in KeySet |->
                  IF /\ ~isLoading'[k]
                     /\ (StoredValueNext(k) # StoredValue(k) \/ isLoading'[k] # isLoading[k])
                  THEN Stringify(StoredValueNext(k))
                  ELSE storage[k]]

\* getNewInvoiceTemplate() at Date.now() = t.
NewInvoiceTemplate(t) ==
    [id |-> t, issueDate |-> [y |-> 2025, m |-> 1, d |-> 1], billToName |-> "",
     lineItems |-> <<>>]

\* onSelectInvoice of the invoice list.
SelectInvoice(i) ==
    /\ AppReady
    /\ view = "list"
    /\ i \in 1..Len(invoices)
    /\ selectedInvoice' = invoices[i]
    /\ view' = "view"
    /\ UNCHANGED <<uiFrame, invoices, storage, sinceLogout, invoiceToEdit, formInvoice, clock>>

\* onClose of InvoiceView.
CloseInvoice ==
    /\ AppReady
    /\ view = "view"
    /\ selectedInvoice # NoInvoice
    /\ selectedInvoice' = NoInvoice
    /\ view' = "list"
    /\ UNCHANGED <<uiFrame, invoices, storage, sinceLogout, invoiceToEdit, formInvoice, clock>>

\* onEdit of InvoiceView: InvoiceForm mounts with invoiceToEdit as its state.
EditInvoice ==
    /\ AppReady
    /\ view = "view"
    /\ selectedInvoice # NoInvoice
    /\ invoiceToEdit' = selectedInvoice
    /\ view' = "form"
    /\ formInvoice' = selectedInvoice
    /\ UNCHANGED <<uiFrame, invoices, storage, sinceLogout, selectedInvoice, clock>>

\* The "Create New Invoice" button of the header. An InvoiceForm that is
\* already mounted stays mounted and keeps its state: useState takes its
\* initial value at mount only.
CreateNewInvoice ==
    /\ AppReady
    /\ invoiceToEdit' = NoInvoice
    /\ view' = "form"
    /\ IF view = "form"
       THEN UNCHANGED <<formInvoice, clock>>
       ELSE /\ clock < MaxNewForms
            /\ clock' = clock + 1
            /\ formInvoice' = NewInvoiceTemplate(clock')
    /\ UNCHANGED <<uiFrame, invoices, storage, sinceLogout, selectedInvoice>>

\* handlePartyChange('billTo', 'name', value) of the form.
ChangeBillToName(name) ==
    /\ AppReady
    /\ view = "form"
    /\ formInvoice' = [formInvoice EXCEPT !.billToName = name]
    /\ UNCHANGED <<uiFrame, invoices, storage, sinceLogout, view, selectedInvoice,
                   invoiceToEdit, clock>>

\* addLineItemFromProduct of the form: a new item object with id LI-Date.now().
AddLineItemFromProduct ==
    /\ AppReady
    /\ view = "form"
    /\ Len(formInvoice.lineItems) < MaxLineItems
    /\ clock < MaxNewForms
    /\ clock' = clock + 1
    /\ formInvoice' = [formInvoice EXCEPT !.lineItems =
                          Append(@, [id |-> clock', quantity |-> 1, price |-> 0])]
    /\ UNCHANGED <<uiFrame, invoices, storage, sinceLogout, view, selectedInvoice,
                   invoiceToEdit>>

\* (updatedLineItems[index] as any)[field] = value: the assignment is made to
\* the line-item object itself, which every invoice object holding that item
\* shares (no code path copies a line item); the item is named by its id.
MutateLineItem(invoice, id, field, value) ==
    [invoice EXCEPT !.lineItems =
        [i \in 1..Len(@) |-> IF @[i].id = id THEN [@[i] EXCEPT ![field] = value]
                              ELSE @[i]]]

\* The values the quantity and price inputs hand to handleLineItemChange.
LineItemChanges == {[field |-> "quantity", value |-> 2], [field |-> "price", value |-> 5]}

\* handleLineItemChange(index, field, value) of the form. Only the form's
\* setInvoice is called: the invoices value of App keeps its identity, so no
\* write effect of useLocalStorage runs.
HandleLineItemChange(index, c) ==
    /\ AppReady
    /\ view = "form"
    /\ index \in 1..Len(formInvoice.lineItems)
    /\ LET id == formInvoice.lineItems[index].id
       IN  /\ formInvoice' = MutateLineItem(formInvoice, id, c.field, c.value)
           /\ invoiceToEdit' = MutateLineItem(invoiceToEdit, id, c.field, c.value)
           /\ selectedInvoice' = MutateLineItem(selectedInvoice, id, c.field, c.value)
           /\ invoices' = [i \in 1..Len(invoices) |->
                              MutateLineItem(invoices[i], id, c.field, c.value)]
    /\ UNCHANGED <<uiFrame, storage, sinceLogout, view, clock>>

\* prev.map(inv => (inv.id === invoice.id ? invoice : inv))
ReplaceById(list, invoice) ==
    [i \in 1..Len(list) |-> IF list[i].id = invoice.id THEN invoice ELSE list[i]]

\* handleSubmit of the form: handleSaveInvoice(invoice).
HandleSaveInvoice ==
    /\ AppReady
    /\ view = "form"
    /\ invoiceToEdit = NoInvoice => Len(invoices) < MaxInvoices
    /\ invoices' = IF invoiceToEdit # NoInvoice THEN ReplaceById(invoices, formInvoice)
                   ELSE Append(invoices, formInvoice)
    /\ invoiceToEdit' = NoInvoice
    /\ selectedInvoice' = formInvoice
    /\ view' = "view"
    /\ formInvoice' = NoInvoice
    /\ sinceLogout' = FALSE
    /\ UNCHANGED <<uiFrame, clock>>
    /\ WriteEffects

\* onCancel of the form.
CancelForm ==
    /\ AppReady
    /\ view = "form"
    /\ invoiceToEdit' = NoInvoice
    /\ view' = "list"
    /\ formInvoice' = NoInvoice
    /\ UNCHANGED <<uiFrame, invoices, storage, sinceLogout, selectedInvoice, clock>>

\* prev.filter(inv => inv.id !== selectedInvoice.id)
RECURSIVE WithoutId(_, _)
WithoutId(list, id) ==
    IF list = <<>> THEN <<>>
    ELSE IF Head(list).id = id THEN WithoutId(Tail(list), id)
    ELSE <<Head(list)>> \o WithoutId(Tail(list), id)

\* onDelete of InvoiceView, confirmed: handleDeleteInvoice.
HandleDeleteInvoice ==
    /\ AppReady
    /\ view = "view"
    /\ selectedInvoice # NoInvoice
    /\ invoices' = WithoutId(invoices, selectedInvoice.id)
    /\ selectedInvoice' = NoInvoice
    /\ view' = "list"
    /\ sinceLogout' = FALSE
    /\ UNCHANGED <<uiFrame, invoiceToEdit, formInvoice, clock>>
    /\ WriteEffects

BillToNames == {"Acme"}

\* The app on screen after login as staff u1, with nothing stored yet.
InvoicesInit ==
    /\ profiles = [u \in Subjects |-> IF u = "u1" THEN [id |-> "u1", role |-> "staff"]
                                      ELSE NoRow]
    /\ LoggedInAs("u1", [id |-> "u1", role |-> "staff"])
    /\ InvoicesIdle
    /\ ReportsIdle
    /\ SettingsIdle
    /\ UiIdle
    /\ StoreLoaded

InvoicesNext ==
    \/ \E i \in 1..MaxInvoices : SelectInvoice(i)
    \/ CloseInvoice
    \/ EditInvoice
    \/ CreateNewInvoice
    \/ \E name \in BillToNames : ChangeBillToName(name)
    \/ AddLineItemFromProduct
    \/ \E index \in 1..MaxLineItems, c \in LineItemChanges : HandleLineItemChange(index, c)
    \/ HandleSaveInvoice
    \/ CancelForm
    \/ HandleDeleteInvoice

SpecInvoices == InvoicesInit /\ [][InvoicesNext]_vars

\* ============================================= stored data and logout
storeFrame == <<mount, schema, profiles, initVars, cbs, notified, getSessionCalls,
                insertCalls, histVars, reportVars, users, currentView, newUserRole,
                userOp, fetches, userOps, templateVars>>

\* Value of a key after the read of key k: JSON.parse(item) when the item
\* exists, else the value is kept.
LoadedValue(key, k) ==
    IF key = k /\ storage[k].present THEN Parse(storage[k]) ELSE StoredValue(key)

\* The setTimeout(0) callback of the read effect of key k; the timers fire in
\* the order of the hook calls.
LoadItem(k) ==
    /\ isLoading[Keys[k]]
    /\ \A j \in 1..(k - 1) : ~isLoading[Keys[j]]
    /\ invoices' = LoadedValue("invoices", Keys[k])
    /\ products' = LoadedValue("products", Keys[k])
    /\ templates' = LoadedValue("templates", Keys[k])
    /\ businessProfile' = LoadedValue("businessProfile", Keys[k])
    /\ appIcon' = LoadedValue("appIcon", Keys[k])
    /\ loginBackground' = LoadedValue("loginBackground", Keys[k])
    /\ isLoading' = [isLoading EXCEPT ![Keys[k]] = FALSE]
    /\ UNCHANGED <<storeFrame, reactVars, remoteSession, signOutCalls, isSettingsOpen,
                   uiVars, uploading, logoutPc, sinceLogout>>
    /\ WriteEffects

\* handleAddNewProduct, called by the form.
HandleAddNewProduct ==
    /\ AppReady
    /\ view = "form"
    /\ Len(products) < MaxProducts
    /\ products' = Append(products, "new product")
    /\ sinceLogout' = FALSE
    /\ UNCHANGED <<storeFrame, reactVars, remoteSession, signOutCalls, isSettingsOpen,
                   uiVars, invoices, templates, businessProfile, appIcon, loginBackground,
                   isLoading, uploading, logoutPc>>
    /\ WriteEffects

\* What SettingsModal hands to onSave: its local templates, icon and profile.
SettingsChoices ==
    {[templates |-> <<DEFAULT_TEMPLATE>>, appIcon |-> DEFAULT_APP_ICON,
      businessProfile |-> DefaultBusinessProfile],
     [templates |-> <<[id |-> "default", isDefault |-> FALSE],
                      [id |-> "tpl_1", isDefault |-> TRUE]>>,
      appIcon |-> "uploaded icon",
      businessProfile |-> [name |-> "Other Shop", logoUrl |-> ""]]}

\* "Save Changes" of SettingsModal: handleSave and handleSaveSettings up to
\* the await of the background upload; without a new background file the
\* handler completes and the modal closes.
HandleSaveSettings(settings, withFile) ==
    /\ AppReady
    /\ isSettingsOpen
    /\ ~uploading
    /\ templates' = settings.templates
    /\ appIcon' = settings.appIcon
    /\ businessProfile' = settings.businessProfile
    /\ uploading' = withFile
    /\ isSettingsOpen' = withFile
    /\ sinceLogout' = FALSE
    /\ UNCHANGED <<storeFrame, reactVars, remoteSession, signOutCalls, uiVars, invoices,
                   products, loginBackground, isLoading, logoutPc>>
    /\ WriteEffects

\* The upload answered: on success setLoginBackground(publicUrl) and the
\* modal's onClose; on failure the error is thrown to handleSave's alert.
UploadReturn ==
    /\ uploading
    /\ uploading' = FALSE
    /\ \E ok \in BOOLEAN :
          IF ok THEN loginBackground' = "uploaded background" /\ isSettingsOpen' = FALSE
          ELSE UNCHANGED <<loginBackground, isSettingsOpen>>
    /\ UNCHANGED <<storeFrame, reactVars, remoteSession, signOutCalls, uiVars, invoices,
                   products, templates, businessProfile, appIcon, isLoading, logoutPc,
                   sinceLogout>>
    /\ WriteEffects

\* The logout button: handleLogout up to the await of signOut.
HandleLogout ==
    /\ AppReady
    /\ logoutPc = "idle"
    /\ invoices' = <<>>
    /\ products' = SAMPLE_PRODUCTS
    /\ templates' = <<DEFAULT_TEMPLATE>>
    /\ businessProfile' = DefaultBusinessProfile
    /\ appIcon' = DEFAULT_APP_ICON
    /\ loginBackground' = DefaultLoginBackground
    /\ view' = "list"
    /\ selectedInvoice' = NoInvoice
    /\ invoiceToEdit' = NoInvoice
    /\ formInvoice' = NoInvoice
    /\ logoutPc' = "signOut"
    /\ sinceLogout' = TRUE
    /\ UNCHANGED <<storeFrame, reactVars, remoteSession, signOutCalls, isSettingsOpen, clock,
                   isLoading,
                   uploading>>
    /\ WriteEffects

\* signOut answered: on success the provider drops the session and the
\* listener sets session and currentUser to null.
LogoutSignOutReturn ==
    /\ logoutPc = "signOut"
    /\ logoutPc' = "idle"
    /\ \E r \in {"ok", "error", Reject} :
          IF r = "ok"
          THEN /\ remoteSession' = NULL
               /\ session' = NULL
               /\ currentUser' = NullUser
               /\ UNCHANGED <<isAuthLoading, needsDbSetup, loginMessage>>
          ELSE UNCHANGED <<reactVars, remoteSession>>
    /\ UNCHANGED <<storeFrame, signOutCalls, isSettingsOpen, uiVars, invoices, dataVars,
                   storage, isLoading, uploading, sinceLogout>>

\* What an earlier session left in localStorage.
PreviousSessionItems ==
    [k \in KeySet |->
        CASE k = "invoices" -> Stringify(<<[NewInvoiceTemplate(-1) EXCEPT !.billToName = "Acme"]>>)
          [] k = "products" -> Stringify(<<"sample product", "new product">>)
          [] k = "templates" -> Stringify(<<[id |-> "default", isDefault |-> FALSE],
                                            [id |-> "tpl_1", isDefault |-> TRUE]>>)
          [] k = "businessProfile" -> Stringify([name |-> "Other Shop", logoUrl |-> ""])
          [] k = "appIcon" -> Stringify("uploaded icon")
          [] k = "loginBackground" -> Stringify("uploaded background")]

\* The app just constructed with u1 signed in: the reads of localStorage are
\* pending; localStorage is empty or holds the items of an earlier session.
LogoutInit ==
    /\ profiles = [u \in Subjects |-> IF u = "u1" THEN [id |-> "u1", role |-> "staff"]
                                      ELSE NoRow]
    /\ LoggedInAs("u1", [id |-> "u1", role |-> "staff"])
    /\ InvoicesIdle
    /\ ReportsIdle
    /\ SettingsIdle
    /\ UiIdle
    /\ DataAtDefaults
    /\ storage \in {[k \in KeySet |-> NoItem(k)], PreviousSessionItems}
    /\ isLoading = [k \in KeySet |-> TRUE]
    /\ uploading = FALSE
    /\ logoutPc = "idle"
    /\ sinceLogout = FALSE

LogoutNext ==
    \/ \E k \in 1..Len(Keys) : LoadItem(k)
    \/ CreateNewInvoice
    \/ \E name \in BillToNames : ChangeBillToName(name)
    \/ HandleSaveInvoice
    \/ CancelForm
    \/ HandleAddNewProduct
    \/ OpenSettings
    \/ CloseSettings
    \/ \E settings \in SettingsChoices, withFile \in BOOLEAN :
          HandleSaveSettings(settings, withFile)
    \/ UploadReturn
    \/ HandleLogout
    \/ LogoutSignOutReturn

SpecLogout == LogoutInit /\ [][LogoutNext]_vars

\* ------------------------------------- SettingsModal: the Templates section

TemplateIds(list) == {list[i].id : i \in 1..Len(list)}

\* templates.find(t => t.isDefault)?.id || templates[0]?.id || null
InitialSelectedTemplateId(list) ==
    IF \E i \in 1..Len(list) : list[i].isDefault
    THEN list[CHOOSE i \in 1..Len(list) :
                /\ list[i].isDefault
                /\ \A j \in 1..(i - 1) : ~list[j].isDefault].id
    ELSE IF list # <<>> THEN list[1].id
    ELSE NULL

\* newTemplateFactory() at Date.now() = t.
NewTemplate(t) == [id |-> "template_" \o ToString(t), isDefault |-> FALSE]

\* The template selector of the section.
SelectTemplate(id) ==
    /\ isSettingsOpen /\ currentView = "templates"
    /\ id \in TemplateIds(localTemplates)
    /\ selectedTemplateId' = id
    /\ UNCHANGED <<templateFrame, templates, clock, localTemplates, sharedTemplates>>

\* handleSetDefaultTemplate: every template is copied with its new flag.
HandleSetDefaultTemplate ==
    /\ isSettingsOpen /\ currentView = "templates"
    /\ selectedTemplateId # NULL
    /\ localTemplates' = [i \in 1..Len(localTemplates) |->
                            [localTemplates[i] EXCEPT
                                !.isDefault = (localTemplates[i].id = selectedTemplateId)]]
    /\ sharedTemplates' = {}
    /\ UNCHANGED <<templateFrame, templates, clock, selectedTemplateId>>

\* handleAddNewTemplate.
HandleAddNewTemplate ==
    /\ isSettingsOpen /\ currentView = "templates"
    /\ clock < MaxAddedTemplates
    /\ clock' = clock + 1
    /\ localTemplates' = Append(localTemplates, NewTemplate(clock'))
    /\ selectedTemplateId' = NewTemplate(clock').id
    /\ UNCHANGED <<templateFrame, templates, sharedTemplates>>

\* localTemplates.filter(t => t.id !== selectedTemplateId)
RECURSIVE WithoutTemplate(_, _)
WithoutTemplate(list, id) ==
    IF list = <<>> THEN <<>>
    ELSE IF Head(list).id = id THEN WithoutTemplate(Tail(list), id)
    ELSE <<Head(list)>> \o WithoutTemplate(Tail(list), id)

\* Faulty variant: the first remaining template is not made the default.
RemainingTemplatesNoPromotion(list, id) == WithoutTemplate(list, id)

\* The list handleDeleteTemplate sets: the other templates, the first of
\* them made the default when the deleted one was the default.
RemainingTemplates(list, id) ==
    LET remaining == WithoutTemplate(list, id)
        selectedIsDefault == \E i \in 1..Len(list) : list[i].id = id /\ list[i].isDefault
    IN  IF selectedIsDefault THEN [remaining EXCEPT ![1].isDefault = TRUE]
        ELSE remaining

\* handleDeleteTemplate, confirmed. 'remainingTemplates[0].isDefault = true'
\* assigns to the template object itself: when that object is still the one
\* App holds, App's templates value shows the flag too, with no setter called
\* and so no write to localStorage.
HandleDeleteTemplate ==
    /\ isSettingsOpen /\ currentView = "templates"
    /\ selectedTemplateId # NULL
    /\ Len(localTemplates) > 1
    /\ LET remaining == RemainingTemplates(localTemplates, selectedTemplateId)
       IN  /\ localTemplates' = remaining
           /\ selectedTemplateId' = remaining[1].id
           /\ sharedTemplates' = sharedTemplates \cap TemplateIds(remaining)
           /\ templates' = [i \in 1..Len(templates) |->
                               IF /\ templates[i].id = remaining[1].id
                                  /\ remaining[1].id \in sharedTemplates
                               THEN remaining[1]
                               ELSE templates[i]]
    /\ UNCHANGED <<templateFrame, clock>>

\* The template lists App can hold when the modal opens, one default in each.
StoredTemplateLists ==
    {<<DEFAULT_TEMPLATE>>,
     <<DEFAULT_TEMPLATE, [id |-> "tpl_1", isDefault |-> FALSE]>>,
     <<[id |-> "default", isDefault |-> FALSE], [id |-> "tpl_1", isDefault |-> TRUE]>>,
     <<[id |-> "default", isDefault |-> FALSE], [id |-> "tpl_1", isDefault |-> TRUE],
       [id |-> "tpl_2", isDefault |-> FALSE]>>}

\* SettingsModal just mounted by the settings button and switched to its
\* Templates section, for an admin u1.
TemplatesInit ==
    /\ profiles = [u \in Subjects |-> IF u = "u1" THEN [id |-> "u1", role |-> "admin"]
                                      ELSE NoRow]
    /\ LoggedInAs("u1", [id |-> "u1", role |-> "admin"])
    /\ InvoicesIdle
    /\ ReportsIdle
    /\ UiIdle
    /\ users = {}
    /\ isSettingsOpen = TRUE
    /\ currentView = "templates"
    /\ newUserRole = "staff"
    /\ userOp = NoUserOp
    /\ fetches = 0
    /\ userOps = {}
    /\ templates \in StoredTemplateLists
    /\ products = SAMPLE_PRODUCTS
    /\ businessProfile = DefaultBusinessProfile
    /\ appIcon = DEFAULT_APP_ICON
    /\ loginBackground = DefaultLoginBackground
    /\ storage = [k \in KeySet |-> Stringify(StoredValue(k))]
    /\ isLoading = [k \in KeySet |-> FALSE]
    /\ uploading = FALSE
    /\ logoutPc = "idle"
    /\ sinceLogout = FALSE
    /\ localTemplates = templates
    /\ selectedTemplateId = InitialSelectedTemplateId(templates)
    /\ sharedTemplates = TemplateIds(templates)

TemplatesNext ==
    \/ \E id \in TemplateIds(localTemplates) : SelectTemplate(id)
    \/ HandleSetDefaultTemplate
    \/ HandleAddNewTemplate
    \/ HandleDeleteTemplate

SpecTemplates == TemplatesInit /\ [][TemplatesNext]_vars

\* The session bootstrap on its own: the dashboards are not on screen.
Init == BootInit /\ InvoicesIdle /\ ReportsIdle /\ SettingsIdle /\ UiIdle /\ StoreIdle

Next ==
    \/ Mount /\ UNCHANGED appVars
    \/ Unmount /\ UNCHANGED appVars
    \/ InitProbeReturn /\ UNCHANGED appVars
    \/ InitGetSessionReturn /\ UNCHANGED appVars
    \/ InitReadReturn /\ UNCHANGED appVars
    \/ InitInsertReturn /\ UNCHANGED appVars
    \/ InitSignOutReturn /\ UNCHANGED appVars
    \/ \E s \in Sessions : AuthChange(s) /\ UNCHANGED appVars
    \/ \E i \in 1..Len(cbs) : CbReadReturn(i) /\ UNCHANGED appVars
    \/ \E i \in 1..Len(cbs) : CbInsertReturn(i) /\ UNCHANGED appVars

Spec == Init /\ [][Next]_vars

\* ================================================================ claims

\* Rows that some completed getOrCreateUserProfile call returned.
ResolvedRows == {c.result : c \in calls} \ {NullUser}

\* C1: the LoggedIn screen is shown only with a non-null session and an
\* identity that a getOrCreateUserProfile call returned (read or inserted).
C1_LoggedInNeedsSessionAndIdentity ==
    Screen = "LoggedIn" => session # NULL /\ currentUser \in ResolvedRows

C1_Witness ==
    Screen = "LoggedIn" /\ initPc = "done" /\ notified > 0

\* C2: the probe resolves before getSession is issued, the listener is
\* subscribed only once initializeApp has finished, and no auth-change
\* callback runs while initializeApp is in flight.
C2_StartupBeforeSubscription ==
    /\ getSessionCalls > 0 => initPc \notin {"idle", "probe"}
    /\ mount = "mounted" => ~InitInFlight
    /\ ~cbDuringInit

\* C3: a probe error of the "does not exist" class (code 42P01 or the
\* message containing 'does not exist') ends the bootstrap in NeedsSetup
\* with loading off, and getSession is never called.
C3_MissingTableEndsInNeedsSetup ==
    (initPc # "probe" /\ initProbe # NoError /\ initProbe # RejectedProbe
        /\ (initProbe.code = "42P01" \/ initProbe.dne))
    => /\ initPc = "done"
       /\ getSessionCalls = 0
       /\ endState.live =>
            endState.screen = "NeedsSetup" /\ needsDbSetup /\ ~isAuthLoading

C3_Witness ==
    /\ initPc = "done" /\ initProbe.code = "other" /\ initProbe.dne
    /\ endState.live /\ needsDbSetup /\ notified > 0

\* C4: session at startup, profile read "not found", insert failed: the
\* bootstrap ends in LoggedOut (session and identity null) with the advisory
\* message set and signOut invoked exactly once.
C4_InsertFailureEndsLoggedOut ==
    (initPc = "done" /\ initRead = "notfound" /\ initInsert = "fail" /\ endState.live)
    => /\ endState.screen = "LoggedOut"
       /\ endState.session = NULL
       /\ endState.currentUser = NullUser
       /\ endState.loginMessage # NULL
       /\ endState.signOutCalls = 1

C4_Witness ==
    initPc = "done" /\ initRead = "notfound" /\ initInsert = "fail" /\ endState.live

\* C5: session at startup, profile read "not found", insert succeeded: the
\* bootstrap ends in LoggedIn with the inserted row as identity, role staff.
C5_InsertSuccessEndsLoggedIn ==
    (initPc = "done" /\ initRead = "notfound" /\ initInsert = "ok" /\ endState.live)
    => /\ endState.screen = "LoggedIn"
       /\ endState.session = initSession
       /\ endState.currentUser = [id |-> initSession, role |-> "staff"]
       /\ endState.currentUser = profiles[initSession]

C5_Witness ==
    initPc = "done" /\ initRead = "notfound" /\ initInsert = "ok" /\ endState.live

\* C6: a call whose read found no row issues exactly one insert, the row it
\* returns and every row the fallback wrote has the subject's id and role
\* staff, never admin, whatever else the store holds.
C6_FallbackInsertsOneStaffRow ==
    /\ \A c \in calls :
          c.read = "notfound" =>
             /\ c.inserts = 1
             /\ c.result # NullUser => c.result = [id |-> c.subject, role |-> "staff"]
    /\ \A x \in insertedRows : x.row.id = x.subject /\ x.row.role = "staff"
    /\ \A x, y \in insertedRows : x.subject = y.subject => x = y

C6_Witness ==
    \E c \in calls :
        /\ c.read = "notfound" /\ c.result # NullUser
        /\ \A u \in Subjects \ {c.subject} : profiles[u] = NoRow

\* C7: for a profile that exists when the call starts (stored beforehand or
\* created by an earlier call) the call issues no insert and returns the
\* stored row; all calls for a subject return the same row and the stored
\* row is the one written once.
C7_ResolveIdempotent ==
    /\ \A c \in calls :
          /\ c.had => c.inserts = 0
          /\ c.read = "found" => c.inserts = 0 /\ c.result = profiles[c.subject]
          /\ c.result # NullUser => c.result = profiles[c.subject]
    /\ \A c, d \in calls :
          (c.subject = d.subject /\ c.result # NullUser /\ d.result # NullUser)
             => c.result = d.result
    /\ \A x \in insertedRows : profiles[x.subject] = x.row

C7_Witness ==
    /\ \E c, d \in calls :
          /\ c.by # d.by /\ c.subject = d.subject
          /\ c.had /\ d.had /\ c.read = "found" /\ d.read = "found"
          /\ c.result = d.result
    /\ \E c, d \in calls :
          /\ c.subject = d.subject /\ c.inserts = 1 /\ c.result # NullUser
          /\ d.had /\ d.result = c.result

\* C8: whatever the remote calls of the startup do (succeed, return an error,
\* reject), once initializeApp has no call pending the app has left the
\* Initializing screen for NeedsSetup, LoggedOut or LoggedIn.
C8_StartupLeavesInitializing ==
    (mount = "mounted" /\ initPc # "idle" /\ ~InitInFlight)
    => initPc = "done" /\ Screen \in {"NeedsSetup", "LoggedOut", "LoggedIn"}

\* C9: after a failed identity resolution for a session, in the startup or
\* in a callback, signOut has been invoked and the advisory message is set.
C9_FailedResolutionSignsOut ==
    (mount = "mounted" /\ \E c \in calls : c.result = NullUser)
    => signOutCalls >= 1 /\ loginMessage = ProfileErrorMessage

\* C10: after teardown no state setter is invoked any more.
C10_NoUpdateAfterTeardown ==
    ~lateUpdate


\* ------------------------------------------------------- claims: reports

RECURSIVE SumInvoiceCount(_, _)
SumInvoiceCount(rows, n) ==
    IF n = 0 THEN 0 ELSE SumInvoiceCount(rows, n - 1) + rows[n].invoiceCount

RECURSIVE SumTotalBilled(_, _)
SumTotalBilled(rows, n) ==
    IF n = 0 THEN 0 ELSE SumTotalBilled(rows, n - 1) + rows[n].totalBilled

\* Sum of quantity * price over the first k line items.
RECURSIVE LineItemsSum(_, _)
LineItemsSum(items, k) ==
    IF k = 0 THEN 0 ELSE LineItemsSum(items, k - 1) + items[k].quantity * items[k].price

\* Sum of the totals of the invoices among the first n whose index is in idx.
RECURSIVE SumTotalsOver(_, _, _)
SumTotalsOver(invs, n, idx) ==
    IF n = 0 THEN 0
    ELSE SumTotalsOver(invs, n - 1, idx)
            + (IF n \in idx THEN LineItemsSum(invs[n].lineItems, Len(invs[n].lineItems))
               ELSE 0)

InvoicesWhere(In(_)) == {i \in 1..Len(invoices) : In(invoices[i])}

SameMonth(d, key) == d.y = key.y /\ d.m = key.m

\* Date a is later than date b, as calendar dates.
DateAfter(a, b) ==
    \/ a.y > b.y
    \/ a.y = b.y /\ a.m > b.m
    \/ a.y = b.y /\ a.m = b.m /\ a.d > b.d

MonthAfter(a, b) == a.y > b.y \/ (a.y = b.y /\ a.m > b.m)

\* C11: the invoice counts of the daily rows add up to the number of
\* invoices, and so do the invoice counts of the monthly rows.
C11_CountsAddUp ==
    reportsDone =>
        /\ SumInvoiceCount(dailyReports, Len(dailyReports)) = Len(invoices)
        /\ SumInvoiceCount(monthlyReports, Len(monthlyReports)) = Len(invoices)

\* Three invoices on two days of one month.
C11_Witness ==
    /\ reportsDone
    /\ Len(invoices) = 3
    /\ Len(dailyReports) = 2
    /\ Len(monthlyReports) = 1

\* C12: the billed totals of the daily rows and of the monthly rows both add
\* up to the sum of quantity * price over all line items of all invoices, and
\* the daily row of a date holds exactly the totals of the invoices issued on
\* that date.
C12_TotalsAddUp ==
    reportsDone =>
        LET grand == SumTotalsOver(invoices, Len(invoices), 1..Len(invoices))
        IN  /\ SumTotalBilled(dailyReports, Len(dailyReports)) = grand
            /\ SumTotalBilled(monthlyReports, Len(monthlyReports)) = grand
            /\ \A i \in 1..Len(invoices) :
                  \E r \in 1..Len(dailyReports) : dailyReports[r].date = invoices[i].issueDate
            /\ \A r \in 1..Len(dailyReports) :
                  LET On(inv) == inv.issueDate = dailyReports[r].date
                  IN  dailyReports[r].totalBilled =
                          SumTotalsOver(invoices, Len(invoices), InvoicesWhere(On))

\* A day with a one-item and a two-item invoice, and an invoice on another day.
C12_Witness ==
    /\ reportsDone
    /\ Len(invoices) = 3
    /\ \E r \in 1..Len(dailyReports) :
          dailyReports[r].invoiceCount = 2 /\ dailyReports[r].totalBilled = 28
    /\ \E r \in 1..Len(dailyReports) : dailyReports[r].totalBilled = 8

\* C13: the daily rows are strictly descending by date and the monthly rows
\* strictly descending by month, across the year boundary too; so no key
\* occurs twice.
C13_RowsDescending ==
    reportsDone =>
        /\ \A i, j \in 1..Len(dailyReports) :
              i < j => DateAfter(dailyReports[i].date, dailyReports[j].date)
        /\ \A i, j \in 1..Len(monthlyReports) :
              i < j => MonthAfter(monthlyReports[i].date, monthlyReports[j].date)

\* Invoices entered oldest first on three days around the new year: 2025-01
\* is listed before 2024-12.
C13_Witness ==
    /\ reportsDone
    /\ Len(invoices) = 3
    /\ DateAfter(invoices[2].issueDate, invoices[1].issueDate)
    /\ DateAfter(invoices[3].issueDate, invoices[2].issueDate)
    /\ Len(dailyReports) = 3
    /\ Len(monthlyReports) = 2
    /\ monthlyReports[1].date = [y |-> 2025, m |-> 1]
    /\ monthlyReports[2].date = [y |-> 2024, m |-> 12]

\* C14: in every daily and monthly row 1 <= uniqueCustomers <= invoiceCount,
\* with equality exactly when no two invoices of the period have the same
\* billTo.name string.
C14_UniqueCustomersBound ==
    reportsDone =>
        /\ \A r \in 1..Len(dailyReports) :
              LET row == dailyReports[r]
                  On(inv) == inv.issueDate = row.date
                  period == InvoicesWhere(On)
              IN  /\ 1 <= row.uniqueCustomers
                  /\ row.uniqueCustomers <= row.invoiceCount
                  /\ (row.uniqueCustomers = row.invoiceCount) <=>
                        (\A i, j \in period :
                            i # j => invoices[i].billToName # invoices[j].billToName)
        /\ \A r \in 1..Len(monthlyReports) :
              LET row == monthlyReports[r]
                  On(inv) == SameMonth(inv.issueDate, row.date)
                  period == InvoicesWhere(On)
              IN  /\ 1 <= row.uniqueCustomers
                  /\ row.uniqueCustomers <= row.invoiceCount
                  /\ (row.uniqueCustomers = row.invoiceCount) <=>
                        (\A i, j \in period :
                            i # j => invoices[i].billToName # invoices[j].billToName)

\* One day with a repeated name and another day with two names that differ
\* in case only.
C14_Witness ==
    /\ reportsDone
    /\ \E r \in 1..Len(dailyReports) :
          dailyReports[r].invoiceCount = 2 /\ dailyReports[r].uniqueCustomers = 1
    /\ \E r \in 1..Len(monthlyReports) :
          monthlyReports[r].invoiceCount = 3 /\ monthlyReports[r].uniqueCustomers = 2

\* C15: in every zone an invoice is counted in the monthly row keyed by the
\* year and month of its own issueDate string and in the daily row keyed by
\* its issueDate.
C15_MonthOfOwnIssueDate ==
    reportsDone =>
        /\ \A i \in 1..Len(invoices) :
              /\ \E r \in 1..Len(monthlyReports) :
                    monthlyReports[r].date =
                        [y |-> invoices[i].issueDate.y, m |-> invoices[i].issueDate.m]
              /\ \E r \in 1..Len(dailyReports) :
                    dailyReports[r].date = invoices[i].issueDate
        /\ \A r \in 1..Len(monthlyReports) :
              LET On(inv) == SameMonth(inv.issueDate, monthlyReports[r].date)
              IN  monthlyReports[r].invoiceCount = Cardinality(InvoicesWhere(On))
        /\ \A r \in 1..Len(dailyReports) :
              LET On(inv) == inv.issueDate = dailyReports[r].date
              IN  dailyReports[r].invoiceCount = Cardinality(InvoicesWhere(On))

\* West of UTC, an invoice dated the first of January next to one dated the
\* last of December.
C15_Witness ==
    /\ reportsDone
    /\ tz < 0
    /\ \E i, j \in 1..Len(invoices) :
          /\ invoices[i].issueDate = [y |-> 2025, m |-> 1, d |-> 1]
          /\ invoices[j].issueDate = [y |-> 2024, m |-> 12, d |-> 31]
    /\ Len(monthlyReports) = 2

\* ------------------------------------------------- claims: customer stats

NamesWhere(In(_)) == {invoices[i].billToName : i \in InvoicesWhere(In)}

\* C16: in every zone and at every time of day the customer stats follow the
\* viewer's local calendar: today counts the names of the invoices issued on
\* the local day of now, this month those of its local month, this year
\* those of its local year.
C16_StatsInLocalCalendar ==
    statsDone =>
        LET local == LocalDate(now)
            Today(inv) == inv.issueDate = local
            ThisMonth(inv) == inv.issueDate.y = local.y /\ inv.issueDate.m = local.m
            ThisYear(inv) == inv.issueDate.y = local.y
        IN  /\ stats.today = Cardinality(NamesWhere(Today))
            /\ stats.thisMonth = Cardinality(NamesWhere(ThisMonth))
            /\ stats.thisYear = Cardinality(NamesWhere(ThisYear))

\* ------------------------------------------- claims: profile resolution

RECURSIVE SumOver(_, _)
SumOver(f, S) ==
    IF S = {} THEN 0
    ELSE LET x == CHOOSE y \in S : TRUE IN f[x] + SumOver(f, S \ {x})

\* C20: a resolution whose profile read fails with an error other than
\* PGRST116 attempts no insert, leaves the store alone and returns no
\* identity; a resolution whose insert fails returns no identity; the read and
\* the insert are not retried (at most one insert per resolution, and a
\* startup resolution leaves its read for good once it has answered).
C20_ReadErrorReturnsNull ==
    /\ [](/\ \A c \in calls :
              /\ c.read = "error" => c.inserts = 0 /\ c.result = NullUser
              /\ c.inserts <= 1
              /\ (c.inserts = 1 /\ c.result # NullUser) =>
                    [subject |-> c.subject, row |-> c.result] \in insertedRows
          /\ SumOver(insertCalls, Subjects) <= getSessionCalls + notified)
    /\ [][/\ (initPc = "read" /\ initRead' = "error") =>
                /\ initPc' \notin {"read", "insert"}
                /\ profiles' = profiles
                /\ insertCalls' = insertCalls
          /\ (initPc = "insert" /\ initInsert' = "fail") =>
                /\ initPc' \notin {"read", "insert"}
                /\ profiles' = profiles
                /\ insertCalls' = insertCalls]_vars

\* One resolution ended on a failed read and another on a failed insert.
C20_Witness ==
    /\ \E c \in calls : c.read = "error" /\ c.inserts = 0 /\ c.result = NullUser
    /\ \E c \in calls : c.read = "notfound" /\ c.inserts = 1 /\ c.result = NullUser

\* ------------------------------------------------ claims: user management

\* C17: the user-management operations (create a user with a chosen role,
\* change a role, delete a profile, list all profiles) are issued only by an
\* identity whose role is admin; a staff identity is shown only its own
\* profile and never issues a signUp that asks for the role admin.
C17_UserManagementAdminOnly ==
    /\ \A o \in userOps : o.by = "admin"
    /\ currentUser.role = "staff" => users \subseteq {currentUser}
    /\ ~ \E o \in userOps : o.op = "signUp" /\ o.by = "staff" /\ o.role = "admin"

\* ---------------------------------------------------- claims: invoice list

\* C18: after any sequence of select, Edit, Create New Invoice, Save, Cancel,
\* Close and Delete the ids of the invoices in the list are pairwise
\* distinct; in particular Create New Invoice pressed on an open edit form,
\* then Save, does not append a second invoice with the edited invoice's id.
C18_InvoiceIdsDistinct ==
    \A i, j \in 1..Len(invoices) : i # j => invoices[i].id # invoices[j].id

\* ---------------------------------------------------------- claims: logout

\* C19: once handleLogout has run, and until the user changes data again,
\* every value App keeps is at its default in memory and in localStorage
\* (no invoices, the sample products, the default template, the default
\* business profile, icon and background), whatever signOut answers.
C19_LogoutResetsData ==
    sinceLogout =>
        /\ invoices = <<>>
        /\ DataAtDefaults
        /\ \A k \in KeySet : storage[k] = Stringify(InitialValue(k))

\* ------------------------------------------ claims: auth-change callbacks

\* C21: each auth-change notification updates session and identity together:
\* in every reachable state in which both are non-null the identity's id is
\* the subject of the held session; the session never already belongs to a
\* new subject while the identity still belongs to the previous one.
C21_SessionIdentityPaired ==
    (session # NULL /\ currentUser # NullUser) => currentUser.id = session

\* C25: when the schema probe succeeds, or fails with an error that has
\* neither code 42P01 nor a message containing 'does not exist', the
\* bootstrap does not enter NeedsSetup and goes on to getSession; NeedsSetup
\* is entered only through a probe error of the 'does not exist' class.
C25_NeedsSetupOnlyOnMissingTable ==
    /\ (initPc \notin {"idle", "probe"} /\ initProbe # RejectedProbe
            /\ ~(initProbe # NoError /\ (initProbe.code = "42P01" \/ initProbe.dne)))
        => /\ ~needsDbSetup
           /\ Screen # "NeedsSetup"
           /\ getSessionCalls = 1
    /\ needsDbSetup
        => /\ initProbe # NoError /\ initProbe # RejectedProbe
           /\ (initProbe.code = "42P01" \/ initProbe.dne)

C25_Witness ==
    /\ initPc = "done" /\ initProbe.code = "other" /\ ~initProbe.dne
    /\ getSessionCalls = 1 /\ ~needsDbSetup /\ endState.live

\* C26: for a session whose profile row is missing at most one profile
\* insert is issued for its subject, over the startup resolution and all
\* auth-change callbacks together; so a startup resolution that found the
\* row missing never shows the 'profile could not be loaded or created'
\* message for a subject whose fallback row exists in the store.
C26_AtMostOneInsert ==
    /\ \A u \in Subjects : insertCalls[u] <= 1
    /\ (loginMessage = ProfileErrorMessage /\ initRead = "notfound")
        => ~ \E r \in insertedRows : r.subject = initSession

\* C27: once initializeApp and every callback's resolution have finished, the
\* held session is the session the provider reported last, and a held
\* identity belongs to that session: a resolution started for an earlier
\* session and finishing after a later notification does not overwrite the
\* later notification's state (no identity or session after a sign-out).
C27_LatestSessionWins ==
    (mount = "mounted" /\ notified > 0 /\ initPc \in {"done", "rejected"} /\ cbs = <<>>)
    => /\ session = remoteSession
       /\ currentUser # NullUser => (session # NULL /\ currentUser.id = session)

\* C28: once the bootstrap has entered NeedsSetup, no step issues a profile
\* read (a callback's resolution starting) or a profile insert, and a null
\* session and a null identity stay null, whatever notification arrives.
C28_NeedsSetupIsolated ==
    [][needsDbSetup =>
          /\ Len(cbs') <= Len(cbs)
          /\ insertCalls' = insertCalls
          /\ session = NULL => session' = NULL
          /\ currentUser = NullUser => currentUser' = NullUser]_vars

\* ------------------------------------------ claims: customer stats order

\* C29: for every invoice list, instant and timezone offset, today's
\* customers are among this month's and this month's among this year's, so
\* the three counts shown are ordered today <= thisMonth <= thisYear.
C29_StatsNested ==
    statsDone =>
        /\ DailyCustomers(invoices, now) \subseteq MonthlyCustomers(invoices, now)
        /\ MonthlyCustomers(invoices, now) \subseteq YearlyCustomers(invoices, now)
        /\ stats.today <= stats.thisMonth
        /\ stats.thisMonth <= stats.thisYear

\* ------------------------------------------------ claims: user list fetch

\* C24: a fetch of the user list that answers with an error leaves the held
\* user list as it was and changes none of session, identity, loading flag
\* and login message; the screen shown stays the same.
C24_FailedFetchKeepsUsers ==
    [][(\E r \in UserListResponses : r.error # NULL /\ FetchUsersReturnWith(r))
        => /\ users' = users
           /\ UNCHANGED <<session, currentUser, isAuthLoading, loginMessage>>
           /\ Screen' = Screen]_vars

\* An admin's only fetch has answered and the list is still empty although
\* the admin's row is stored: the fetch failed.
C24_Witness ==
    /\ currentUser.role = "admin" /\ profiles[currentUser.id] # NoRow
    /\ fetches = 0 /\ users = {}
    /\ userOps = {UserOpRecord("list", NULL)}
    /\ Screen = "LoggedIn" /\ loginMessage = NULL

\* ------------------------------------------------- claims: useLocalStorage

C22_ListChangesOnlyOnSave ==
    [][(view = "form" /\ view' # "view") => invoices' = invoices]_vars

\* ---------------------------------------------- claims: settings templates

\* C30: from a template list with exactly one default template, after any
\* sequence of Add New, Delete and Set as Default in the settings modal the
\* local template list is non-empty, has exactly one template with
\* isDefault = true, and selectedTemplateId is the id of a template in it.
C30_OneDefaultTemplate ==
    /\ localTemplates # <<>>
    /\ Cardinality({i \in 1..Len(localTemplates) : localTemplates[i].isDefault}) = 1
    /\ selectedTemplateId \in TemplateIds(localTemplates)

\* The default template was deleted after a template was added: another
\* template is the default now.
C30_Witness ==
    /\ clock > 0
    /\ Len(localTemplates) > 1
    /\ "template_1" \in TemplateIds(localTemplates)
    /\ InitialSelectedTemplateId(templates) \notin TemplateIds(localTemplates)

====
